---- MODULE Spec2Model ----
(***************************************************************************)
(* Dixon-Coles Poisson engine (dixon-coles.ts, kept as src/unnamed/part_003).*)
(*                                                                         *)
(* The engine is a set of pure functions over JavaScript numbers.  A number *)
(* is modelled exactly: a finite value is q * e^x with q and x rationals   *)
(* (kind "fin"), the result of Math.log is ln(q) + x (kind "ln"), and the  *)
(* IEEE special values NaN, +Infinity and -Infinity are values of their    *)
(* own, with the IEEE rules for them.  Rounding of finite values is not    *)
(* modelled: finite arithmetic is that of the reals.  The sign of a zero   *)
(* is not modelled either.                                                 *)
(***************************************************************************)
EXTENDS Integers, Sequences, FiniteSets, TLC

(***************************************************************************)
(* Bounds of the model.                                                    *)
(***************************************************************************)
\* largest maxGoals a caller passes to calculateScoreMatrix
MaxGoals == 3
\* the maxGoals that calculateScoreMatrix takes when the argument is omitted.
\* The source's default is 10 (part_003:65); the model truncates it so that
\* the exact rationals of an (n+1) x (n+1) grid stay within TLC's integers.
DefaultMaxGoals == 3
\* largest goal count handed to dixonColesTau and poissonProbability directly
MaxK == 3
\* number of callers whose calls of predictMatch overlap
NumCallers == 2
\* number of runs of the generatePredictions script
NumRuns == 2
\* largest k handed to logFactorial directly
MaxFactorial == 21
\* the default of maxGoals in the source (part_003:65), which predictMatch
\* uses; the counts its loops pass on need no truncation
SourceDefaultMaxGoals == 10

(***************************************************************************)
(* Rationals n/d, d > 0, in lowest terms.                                  *)
(***************************************************************************)
Abs(i) == IF i < 0 THEN -i ELSE i

RECURSIVE GCD(_, _)
GCD(a, b) == IF b = 0 THEN a ELSE GCD(b, a % b)

Rat(n, d) ==
    LET s == IF d < 0 THEN -1 ELSE 1
        g == GCD(Abs(n), Abs(d))
    IN  [n |-> (s * n) \div g, d |-> (s * d) \div g]

RZero == [n |-> 0, d |-> 1]
ROne == [n |-> 1, d |-> 1]
RInt(i) == [n |-> i, d |-> 1]

RAdd(p, q) ==
    LET g == GCD(p.d, q.d)
    IN  Rat(p.n * (q.d \div g) + q.n * (p.d \div g), (p.d \div g) * q.d)

RNeg(p) == [n |-> -p.n, d |-> p.d]

RSub(p, q) == RAdd(p, RNeg(q))

RMul(p, q) ==
    LET g1 == GCD(Abs(p.n), q.d)
        g2 == GCD(Abs(q.n), p.d)
    IN  IF p.n = 0 \/ q.n = 0 THEN RZero
        ELSE [n |-> (p.n \div g1) * (q.n \div g2),
              d |-> (p.d \div g2) * (q.d \div g1)]

\* 1/p, p # 0
RInv(p) == IF p.n < 0 THEN [n |-> -p.d, d |-> -p.n] ELSE [n |-> p.d, d |-> p.n]

RDiv(p, q) == RMul(p, RInv(q))

RECURSIVE RPow(_, _)
RPow(p, k) == IF k = 0 THEN ROne ELSE RMul(p, RPow(p, k - 1))

RLess(p, q) == p.n * q.d < q.n * p.d

(***************************************************************************)
(* JavaScript numbers.                                                     *)
(*   "fin"   a * e^b        (a, b rationals; zero is 0 * e^0)              *)
(*   "ln"    ln(a) + b      (a > 0, a # 1)                                 *)
(*   "lnbig" ln(N) + b      for an integer N beyond TLC's integers, held   *)
(*           in the field e as the exponents of the primes in N            *)
(*   "nan", "inf", "-inf"   the IEEE special values                        *)
(*   "stirling"  the value of Stirling's formula at a (part_003:35)        *)
(*   "unrep" a finite value outside the forms above; the engine's calls    *)
(*           within the bounds never produce one (see Representable)       *)
(***************************************************************************)
Val(k, a, b) == [k |-> k, a |-> a, b |-> b]
Fin(a, b) == IF a.n = 0 THEN Val("fin", RZero, RZero) ELSE Val("fin", a, b)
Ln(a, b) == IF a = ROne THEN Fin(b, RZero) ELSE Val("ln", a, b)
NaN == Val("nan", RZero, RZero)

\* Logarithms of large integers.  The primes that divide the integers whose
\* logarithms the engine adds up (the loop of logFactorial runs below 20).
Primes == <<2, 3, 5, 7, 11, 13, 17, 19>>

\* the exponent of p in n, n > 0
RECURSIVE ExpOf(_, _)
ExpOf(n, p) == IF n % p = 0 THEN 1 + ExpOf(n \div p, p) ELSE 0

RECURSIVE Pow(_, _)
Pow(p, e) == IF e = 0 THEN 1 ELSE p * Pow(p, e - 1)

\* the exponents of the primes in n
Factor(n) == [i \in 1..Len(Primes) |-> ExpOf(n, Primes[i])]

\* what is left of n after the primes are divided out
RECURSIVE Residue(_, _)
Residue(n, i) ==
    IF i > Len(Primes) THEN n
    ELSE Residue(n \div Pow(Primes[i], ExpOf(n, Primes[i])), i + 1)

\* n is a product of the primes
Smooth(n) == n > 0 /\ Residue(n, 1) = 1

\* the product of the prime powers from the i-th prime on, times acc; 0 when
\* it is beyond TLC's integers
RECURSIVE SafeProduct(_, _, _, _)
SafeProduct(exps, i, e, acc) ==
    IF i > Len(Primes) THEN acc
    ELSE IF e = 0
         THEN SafeProduct(exps, i + 1,
                          IF i < Len(Primes) THEN exps[i + 1] ELSE 0, acc)
         ELSE IF acc > 2147483647 \div Primes[i] THEN 0
              ELSE SafeProduct(exps, i, e - 1, acc * Primes[i])

\* ln(N) + b for the integer N with the given exponents
LnInt(exps, b) ==
    LET v == SafeProduct(exps, 1, exps[1], 1)
    IN  IF v > 0
        THEN Ln(RInt(v), b)
        ELSE [k |-> "lnbig", a |-> [n |-> 0, d |-> 1], b |-> b, e |-> exps]

\* ln(a) + b is ln(N) + b for an integer N that is a product of the primes
IsLnInt(x) == x.k = "lnbig" \/ (x.k = "ln" /\ x.a.d = 1 /\ Smooth(x.a.n))
ExpsOf(x) == IF x.k = "lnbig" THEN x.e ELSE Factor(x.a.n)

\* the product of two rationals stays within TLC's integers
Fits(p, q) ==
    /\ Abs(p.n) <= 2147483647 \div Abs(q.n)
    /\ p.d <= 2147483647 \div q.d
PosInf == Val("inf", RZero, RZero)
NegInf == Val("-inf", RZero, RZero)
Unrep == Val("unrep", RZero, RZero)
\* a numeric literal n/d
Num(n, d) == Fin(Rat(n, d), RZero)
Zero == Num(0, 1)
One == Num(1, 1)

IsZero(x) == x.k = "fin" /\ x.a.n = 0
IsInf(x) == x.k \in {"inf", "-inf"}
IsFinite(x) == x.k \in {"fin", "ln", "lnbig", "stirling", "unrep"}
\* a finite value that is a plain rational
IsRat(x) == x.k = "fin" /\ x.b = RZero
\* the sign (-1, 0 or 1) of a rational multiple of e^b, or of an infinity
Sign(x) ==
    CASE x.k = "inf" -> 1
      [] x.k = "-inf" -> -1
      [] OTHER -> IF x.a.n > 0 THEN 1 ELSE IF x.a.n < 0 THEN -1 ELSE 0
SignedInf(s) == IF s < 0 THEN NegInf ELSE PosInf
HasSign(x) == x.k \in {"fin", "inf", "-inf"}

\* -x
Neg(x) ==
    CASE x.k = "nan" -> NaN
      [] x.k = "inf" -> NegInf
      [] x.k = "-inf" -> PosInf
      [] x.k = "fin" -> Fin(RNeg(x.a), x.b)
      [] x.k = "ln" -> Ln(RInv(x.a), RNeg(x.b))
      [] OTHER -> Unrep

\* x + y
Add(x, y) ==
    CASE x.k = "nan" \/ y.k = "nan" -> NaN
      [] IsInf(x) /\ IsInf(y) -> IF x.k = y.k THEN x ELSE NaN
      [] IsInf(x) -> x
      [] IsInf(y) -> y
      [] IsZero(x) -> y
      [] IsZero(y) -> x
      [] x.k = "fin" /\ y.k = "fin" ->
            IF x.b = y.b THEN Fin(RAdd(x.a, y.a), x.b) ELSE Unrep
      [] x.k = "ln" /\ y.k = "ln" /\ Fits(x.a, y.a) ->
            Ln(RMul(x.a, y.a), RAdd(x.b, y.b))
      [] /\ x.k \in {"ln", "lnbig"} /\ y.k \in {"ln", "lnbig"}
         /\ ~(x.k = "ln" /\ y.k = "ln" /\ Fits(x.a, y.a)) ->
            IF IsLnInt(x) /\ IsLnInt(y)
            THEN LnInt([i \in 1..Len(Primes) |-> ExpsOf(x)[i] + ExpsOf(y)[i]],
                       RAdd(x.b, y.b))
            ELSE Unrep
      [] x.k = "ln" /\ IsRat(y) -> Ln(x.a, RAdd(x.b, y.a))
      [] IsRat(x) /\ y.k = "ln" -> Ln(y.a, RAdd(y.b, x.a))
      [] OTHER -> Unrep

\* x - y
Sub(x, y) == Add(x, Neg(y))

\* x * y
Mul(x, y) ==
    CASE x.k = "nan" \/ y.k = "nan" -> NaN
      [] (IsInf(x) \/ IsInf(y)) /\ HasSign(x) /\ HasSign(y) ->
            IF IsZero(x) \/ IsZero(y) THEN NaN ELSE SignedInf(Sign(x) * Sign(y))
      [] IsZero(x) \/ IsZero(y) -> Zero
      [] x.k = "fin" /\ y.k = "fin" -> Fin(RMul(x.a, y.a), RAdd(x.b, y.b))
      [] IsRat(x) /\ x.a.d = 1 /\ x.a.n > 0 /\ y.k = "ln" ->
            \* k * (ln(a) + b) = ln(a^k) + k*b
            Ln(RPow(y.a, x.a.n), RMul(x.a, y.b))
      [] IsRat(y) /\ y.a.d = 1 /\ y.a.n > 0 /\ x.k = "ln" ->
            Ln(RPow(x.a, y.a.n), RMul(y.a, x.b))
      [] OTHER -> Unrep

\* x / y
Div(x, y) ==
    CASE x.k = "nan" \/ y.k = "nan" -> NaN
      [] IsInf(x) /\ HasSign(y) ->
            IF IsInf(y) THEN NaN
            ELSE SignedInf(Sign(x) * (IF Sign(y) < 0 THEN -1 ELSE 1))
      [] IsInf(y) /\ IsFinite(x) -> Zero
      [] IsZero(y) -> IF IsZero(x) THEN NaN ELSE SignedInf(Sign(x))
      [] IsZero(x) -> Zero
      [] x.k = "fin" /\ y.k = "fin" -> Fin(RDiv(x.a, y.a), RSub(x.b, y.b))
      [] OTHER -> Unrep

\* Math.log(x)
MathLog(x) ==
    CASE x.k = "nan" \/ x.k = "-inf" -> NaN
      [] x.k = "inf" -> PosInf
      [] IsZero(x) -> NegInf
      [] x.k = "fin" ->
            IF x.a.n < 0 THEN NaN ELSE Ln(x.a, x.b)
      [] OTHER -> Unrep

\* Math.exp(x)
MathExp(x) ==
    CASE x.k = "nan" -> NaN
      [] x.k = "inf" -> PosInf
      [] x.k = "-inf" -> Zero
      [] x.k = "ln" -> Fin(x.a, x.b)
      [] IsRat(x) -> Fin(ROne, x.a)
      [] OTHER -> Unrep

\* undefined: the value of a parameter the caller left out
Undefined == Val("undefined", RZero, RZero)

\* a parameter with a default value: the default replaces undefined
Default(x, d) == IF x = Undefined THEN d ELSE x

\* x < y.  A comparison with NaN is false.  Finite values are compared as
\* rationals; the engine compares no other finite values.
Less(x, y) ==
    CASE x.k = "nan" \/ y.k = "nan" -> FALSE
      [] x.k = "inf" -> FALSE
      [] y.k = "-inf" -> FALSE
      [] x.k = "-inf" -> TRUE
      [] y.k = "inf" -> TRUE
      [] IsRat(x) /\ IsRat(y) -> RLess(x.a, y.a)

\* x > y
Greater(x, y) == Less(y, x)

\* the truth value of a number in a condition: 0, NaN and undefined are false
Truthy(x) == ~(x = Undefined \/ x.k = "nan" \/ IsZero(x))

(***************************************************************************)
(* The engine.                                                             *)
(***************************************************************************)
\* the loop of logFactorial: for (let i = 2; i <= k; i++) result += Math.log(i)
RECURSIVE logFactorialLoop(_, _, _)
logFactorialLoop(i, k, result) ==
    IF i <= k
    THEN logFactorialLoop(i + 1, k, Add(result, MathLog(Num(i, 1))))
    ELSE result

\* k*ln(k) - k + 0.5*ln(2*pi*k), kept as a value of its own
Stirling(k) == Val("stirling", RInt(k), RZero)

\* Variant of logFactorial for the sensitivity of C25: Stirling's formula
\* from 19 on
logFactorial_from19(k) ==
    IF k <= 1 THEN Zero
    ELSE IF k < 19 THEN logFactorialLoop(2, k, Zero)
    ELSE Stirling(k)

logFactorial(k) ==
    IF k <= 1 THEN Zero
    ELSE IF k < 20 THEN logFactorialLoop(2, k, Zero)
    ELSE Stirling(k)

\* Variant of poissonProbability for the sensitivity of C20: no check of k
poissonProbability_unchecked(lambda, k) ==
    LET logProb ==
            Sub(Sub(Mul(Num(k, 1), MathLog(lambda)), lambda), logFactorial(k))
    IN  MathExp(logProb)

poissonProbability(lambda, k) ==
    IF k < 0 THEN Zero
    ELSE LET logProb ==
                 Sub(Sub(Mul(Num(k, 1), MathLog(lambda)), lambda), logFactorial(k))
         IN  MathExp(logProb)

\* Variants of dixonColesTau with a slip, for the sensitivity of C3 and C5:
\* (1,0) corrected as the draws are
dixonColesTau_asym(homeGoals, awayGoals, rho) ==
    IF homeGoals = 0 /\ awayGoals = 0 THEN Sub(One, rho)
    ELSE IF homeGoals = 0 /\ awayGoals = 1 THEN Add(One, rho)
    ELSE IF homeGoals = 1 /\ awayGoals = 0 THEN Sub(One, rho)
    ELSE IF homeGoals = 1 /\ awayGoals = 1 THEN Sub(One, rho)
    ELSE One

\* (1,1) left without a correction
dixonColesTau_noOneOne(homeGoals, awayGoals, rho) ==
    IF homeGoals = 0 /\ awayGoals = 0 THEN Sub(One, rho)
    ELSE IF homeGoals = 0 /\ awayGoals = 1 THEN Add(One, rho)
    ELSE IF homeGoals = 1 /\ awayGoals = 0 THEN Add(One, rho)
    ELSE One

dixonColesTau(homeGoals, awayGoals, rho) ==
    IF homeGoals = 0 /\ awayGoals = 0 THEN Sub(One, rho)
    ELSE IF homeGoals = 0 /\ awayGoals = 1 THEN Add(One, rho)
    ELSE IF homeGoals = 1 /\ awayGoals = 0 THEN Add(One, rho)
    ELSE IF homeGoals = 1 /\ awayGoals = 1 THEN Sub(One, rho)
    ELSE One

DefaultRho == Num(-13, 100)

\* matrix.flat().reduce((sum, prob) => sum + prob, 0): the cells are added to
\* the running sum row after row, each row from left to right
RECURSIVE ReduceRow(_, _, _, _)
ReduceRow(row, maxGoals, away, sum) ==
    IF away > maxGoals THEN sum
    ELSE ReduceRow(row, maxGoals, away + 1, Add(sum, row[away]))

RECURSIVE FlatReduce(_, _, _, _)
FlatReduce(matrix, maxGoals, home, sum) ==
    IF home > maxGoals THEN sum
    ELSE FlatReduce(matrix, maxGoals, home + 1,
                    ReduceRow(matrix[home], maxGoals, 0, sum))

\* first pass: the raw Poisson products
RawMatrix(lambdaHome, lambdaAway, maxGoals) ==
    [home \in 0..maxGoals |->
        [away \in 0..maxGoals |->
            LET probHome == poissonProbability(lambdaHome, home)
                probAway == poissonProbability(lambdaAway, away)
            IN  Mul(probHome, probAway)]]

\* second pass: the Dixon-Coles correction of every cell
CorrectMatrix(matrix, maxGoals, rho) ==
    [home \in 0..maxGoals |->
        [away \in 0..maxGoals |->
            LET tau == dixonColesTau(home, away, rho)
            IN  Mul(matrix[home][away], tau)]]

\* Variant of NormalizeMatrix for the sensitivity of C4: no normalization
NormalizeMatrix_skipped(matrix, maxGoals) == matrix

\* third pass: every cell divided by the total of the corrected cells
NormalizeMatrix(matrix, maxGoals) ==
    LET total == FlatReduce(matrix, maxGoals, 0, Zero)
    IN  [home \in 0..maxGoals |->
            [away \in 0..maxGoals |-> Div(matrix[home][away], total)]]

\* Variant of calculateScoreMatrix for the sensitivity of C6: the grid is
\* normalized before, not after, the correction
calculateScoreMatrix_normalizeFirst(lambdaHome, lambdaAway, maxGoals, rho) ==
    LET total == FlatReduce(RawMatrix(lambdaHome, lambdaAway, maxGoals), maxGoals, 0, Zero)
    IN  [home \in 0..maxGoals |->
            [away \in 0..maxGoals |->
                Mul(Div(RawMatrix(lambdaHome, lambdaAway, maxGoals)[home][away], total),
                    dixonColesTau(home, away, rho))]]

calculateScoreMatrix(lambdaHome, lambdaAway, maxGoals, rho) ==
    NormalizeMatrix(
        CorrectMatrix(RawMatrix(lambdaHome, lambdaAway, maxGoals), maxGoals, rho),
        maxGoals)

\* matrix.length
Length(matrix) == Cardinality(DOMAIN matrix)

\* Variants of PredictCell with a slip, for the sensitivity of C7, C8 and C9:
\* home >= away counted as a home win
PredictCell_homeOrDraw(acc, home, away, prob) ==
    [probHome |-> IF home >= away THEN Add(acc.probHome, prob) ELSE acc.probHome,
     probDraw |-> IF home >= away THEN acc.probDraw
                  ELSE IF home = away THEN Add(acc.probDraw, prob)
                  ELSE acc.probDraw,
     probAway |-> IF home >= away THEN acc.probAway
                  ELSE IF home = away THEN acc.probAway
                  ELSE Add(acc.probAway, prob),
     probOver2_5 |-> IF 2 * (home + away) > 5 THEN Add(acc.probOver2_5, prob)
                     ELSE acc.probOver2_5,
     probBTTS |-> IF home > 0 /\ away > 0 THEN Add(acc.probBTTS, prob)
                  ELSE acc.probBTTS]

\* a total of 2 goals counted as over 2.5
PredictCell_overTwo(acc, home, away, prob) ==
    [probHome |-> IF home > away THEN Add(acc.probHome, prob) ELSE acc.probHome,
     probDraw |-> IF home > away THEN acc.probDraw
                  ELSE IF home = away THEN Add(acc.probDraw, prob)
                  ELSE acc.probDraw,
     probAway |-> IF home > away THEN acc.probAway
                  ELSE IF home = away THEN acc.probAway
                  ELSE Add(acc.probAway, prob),
     probOver2_5 |-> IF home + away >= 2 THEN Add(acc.probOver2_5, prob)
                     ELSE acc.probOver2_5,
     probBTTS |-> IF home > 0 /\ away > 0 THEN Add(acc.probBTTS, prob)
                  ELSE acc.probBTTS]

\* one side scoring counted as both teams scoring
PredictCell_eitherScores(acc, home, away, prob) ==
    [probHome |-> IF home > away THEN Add(acc.probHome, prob) ELSE acc.probHome,
     probDraw |-> IF home > away THEN acc.probDraw
                  ELSE IF home = away THEN Add(acc.probDraw, prob)
                  ELSE acc.probDraw,
     probAway |-> IF home > away THEN acc.probAway
                  ELSE IF home = away THEN acc.probAway
                  ELSE Add(acc.probAway, prob),
     probOver2_5 |-> IF 2 * (home + away) > 5 THEN Add(acc.probOver2_5, prob)
                     ELSE acc.probOver2_5,
     probBTTS |-> IF home > 0 \/ away > 0 THEN Add(acc.probBTTS, prob)
                  ELSE acc.probBTTS]

\* one cell of predictMatch's loop: the cell's probability goes to its buckets
PredictCell(acc, home, away, prob) ==
    [probHome |-> IF home > away THEN Add(acc.probHome, prob) ELSE acc.probHome,
     probDraw |-> IF home > away THEN acc.probDraw
                  ELSE IF home = away THEN Add(acc.probDraw, prob)
                  ELSE acc.probDraw,
     probAway |-> IF home > away THEN acc.probAway
                  ELSE IF home = away THEN acc.probAway
                  ELSE Add(acc.probAway, prob),
     \* (home + away) > 2.5
     probOver2_5 |-> IF 2 * (home + away) > 5 THEN Add(acc.probOver2_5, prob)
                     ELSE acc.probOver2_5,
     probBTTS |-> IF home > 0 /\ away > 0 THEN Add(acc.probBTTS, prob)
                  ELSE acc.probBTTS]

\* the inner loop: for (let away = 0; away <= maxGoals; away++)
RECURSIVE PredictRow(_, _, _, _, _)
PredictRow(matrix, maxGoals, home, away, acc) ==
    IF away > maxGoals THEN acc
    ELSE PredictRow(matrix, maxGoals, home, away + 1,
                    PredictCell(acc, home, away, matrix[home][away]))

\* the outer loop: for (let home = 0; home <= maxGoals; home++)
RECURSIVE PredictLoop(_, _, _, _)
PredictLoop(matrix, maxGoals, home, acc) ==
    IF home > maxGoals THEN acc
    ELSE PredictLoop(matrix, maxGoals, home + 1,
                     PredictRow(matrix, maxGoals, home, 0, acc))

\* Variant of Aggregate for the sensitivity of C10: the two rates exchanged
Aggregate_ratesSwapped(matrix, lambdaHome, lambdaAway) ==
    LET maxGoals == Length(matrix) - 1
        sums == PredictLoop(matrix, maxGoals, 0,
                    [probHome |-> Zero, probDraw |-> Zero, probAway |-> Zero,
                     probOver2_5 |-> Zero, probBTTS |-> Zero])
    IN  [probHome |-> sums.probHome,
         probDraw |-> sums.probDraw,
         probAway |-> sums.probAway,
         xgHome |-> lambdaAway,
         xgAway |-> lambdaHome,
         prob0_0 |-> matrix[0][0],
         probOver2_5 |-> sums.probOver2_5,
         probBTTS |-> sums.probBTTS]

\* the part of predictMatch after the matrix is built (part_003:118-154)
Aggregate(matrix, lambdaHome, lambdaAway) ==
    LET maxGoals == Length(matrix) - 1
        sums == PredictLoop(matrix, maxGoals, 0,
                    [probHome |-> Zero, probDraw |-> Zero, probAway |-> Zero,
                     probOver2_5 |-> Zero, probBTTS |-> Zero])
    IN  [probHome |-> sums.probHome,
         probDraw |-> sums.probDraw,
         probAway |-> sums.probAway,
         xgHome |-> lambdaHome,
         xgAway |-> lambdaAway,
         prob0_0 |-> matrix[0][0],
         probOver2_5 |-> sums.probOver2_5,
         probBTTS |-> sums.probBTTS]

predictMatch(lambdaHome, lambdaAway) ==
    Aggregate(calculateScoreMatrix(lambdaHome, lambdaAway, DefaultMaxGoals, DefaultRho),
              lambdaHome, lambdaAway)

DefaultLeagueAvg == Num(3, 2)
DefaultHomeAdvantage == Num(1, 1)

\* Variant of calculateExpectedGoals for the sensitivity of C11: a negative
\* rate is clamped to 0
calculateExpectedGoals_clamped(attackStrength, defenseStrengthOpp, leagueAvg, homeAdvantage) ==
    LET product ==
            Mul(Mul(Mul(attackStrength, defenseStrengthOpp),
                    Default(leagueAvg, DefaultLeagueAvg)),
                Default(homeAdvantage, DefaultHomeAdvantage))
    IN  IF Less(product, Zero) THEN Zero ELSE product

\* the product, left to right; each factor and each partial product is a value
\* computed once
calculateExpectedGoals(attackStrength, defenseStrengthOpp, leagueAvg, homeAdvantage) ==
    CHOOSE goals \in
        {Mul(scaled, advantage) :
            scaled \in {Mul(ratings, average) :
                           ratings \in {Mul(attackStrength, defenseStrengthOpp)},
                           average \in {Default(leagueAvg, DefaultLeagueAvg)}},
            advantage \in {Default(homeAdvantage, DefaultHomeAdvantage)}} :
        TRUE

DefaultMargin == Num(1, 20)

\* what a function that rejected its input would hand back
InvalidInput == Val("InvalidInput", RZero, RZero)

\* Variants of findValueBet with a slip, for the sensitivity of C12, C14, C17
\* and C18: an edge equal to the margin counts as value
findValueBet_atLeast(trueProbability, odds, margin) ==
    LET impliedProbability == Div(One, odds)
        fairOdds == Div(One, trueProbability)
        edge == Div(Sub(trueProbability, impliedProbability), impliedProbability)
    IN  [hasValue |-> ~Less(edge, Default(margin, DefaultMargin)) /\ edge.k # "nan",
         edge |-> Mul(edge, Num(100, 1)),
         fairOdds |-> fairOdds]

\* the edge taken relative to the true probability
findValueBet_overTrue(trueProbability, odds, margin) ==
    LET impliedProbability == Div(One, odds)
        fairOdds == Div(One, trueProbability)
        edge == Div(Sub(trueProbability, impliedProbability), trueProbability)
    IN  [hasValue |-> Greater(edge, Default(margin, DefaultMargin)),
         edge |-> Mul(edge, Num(100, 1)),
         fairOdds |-> fairOdds]

\* the size of the edge compared with the margin, whatever its sign
findValueBet_absEdge(trueProbability, odds, margin) ==
    LET impliedProbability == Div(One, odds)
        fairOdds == Div(One, trueProbability)
        edge == Div(Sub(trueProbability, impliedProbability), impliedProbability)
    IN  [hasValue |-> Greater(IF Less(edge, Zero) THEN Neg(edge) ELSE edge,
                             Default(margin, DefaultMargin)),
         edge |-> Mul(edge, Num(100, 1)),
         fairOdds |-> fairOdds]

\* odds <= 1 or a probability outside [0,1] rejected
findValueBet_validating(trueProbability, odds, margin) ==
    LET impliedProbability == Div(One, odds)
        fairOdds == Div(One, trueProbability)
        edge == Div(Sub(trueProbability, impliedProbability), impliedProbability)
    IN  IF ~Less(One, odds) \/ Less(trueProbability, Zero) \/ Less(One, trueProbability)
        THEN InvalidInput
        ELSE [hasValue |-> Greater(edge, Default(margin, DefaultMargin)),
         edge |-> Mul(edge, Num(100, 1)),
         fairOdds |-> fairOdds]

findValueBet(trueProbability, odds, margin) ==
    LET impliedProbability == Div(One, odds)
        fairOdds == Div(One, trueProbability)
        edge == Div(Sub(trueProbability, impliedProbability), impliedProbability)
    IN  [hasValue |-> Greater(edge, Default(margin, DefaultMargin)),
         edge |-> Mul(edge, Num(100, 1)),
         fairOdds |-> fairOdds]

\* probs.reduce((sum, prob) => sum + prob, 0), from the i-th element on
RECURSIVE ReduceSum(_, _, _)
ReduceSum(probs, i, sum) ==
    IF i > Len(probs) THEN sum ELSE ReduceSum(probs, i + 1, Add(sum, probs[i]))

\* Variant of detectArbitrage for the sensitivity of C13: an implied sum of
\* exactly 1 counts as an arbitrage
detectArbitrage_atMost(odds1, odds2, odds3) ==
    LET two == <<Div(One, odds1), Div(One, odds2)>>
        probs == IF Truthy(odds3) THEN Append(two, Div(One, odds3)) ELSE two
        totalImplied == ReduceSum(probs, 1, Zero)
        profitMargin == Mul(Sub(Div(One, totalImplied), One), Num(100, 1))
    IN  [isArbitrage |-> ~Less(One, totalImplied) /\ totalImplied.k # "nan",
         profitMargin |-> profitMargin]

detectArbitrage(odds1, odds2, odds3) ==
    LET two == <<Div(One, odds1), Div(One, odds2)>>
        probs == IF Truthy(odds3) THEN Append(two, Div(One, odds3)) ELSE two
        totalImplied == ReduceSum(probs, 1, Zero)
        profitMargin == Mul(Sub(Div(One, totalImplied), One), Num(100, 1))
    IN  [isArbitrage |-> Less(totalImplied, One),
         profitMargin |-> profitMargin]

\* Variant of LoopCounts for the sensitivity of C24: loops that run to twice
\* maxGoals
LoopCounts_doubled(maxGoals) == 0..(2 * maxGoals)

\* the counts k that the loops of calculateScoreMatrix hand to
\* poissonProbability: home and away run from 0 to maxGoals
LoopCounts(maxGoals) == 0..maxGoals

(***************************************************************************)
(* The callers.  The engine keeps no state of its own; the state is that   *)
(* of a caller: the call it made (fn, args) and what the call returned.    *)
(***************************************************************************)
VARIABLES pc, fn, args, matrix, prediction, ret

\* the counts k with which the call reached poissonProbability
VARIABLE kargs

vars == <<pc, fn, args, matrix, prediction, ret, kargs>>

\* Callers whose calls of predictMatch overlap: for each caller the pass its
\* call has completed (cpc), the arguments (cargs), the call's local matrix
\* (cmatrix) and the value returned (cresult); seen remembers one earlier call
\* and what it returned.
VARIABLES cpc, cargs, cmatrix, cresult, seen

cvars == <<cpc, cargs, cmatrix, cresult, seen>>

\* The application around the engine: the predictions table, the runs of the
\* generatePredictions script (run: each run's position and local variables;
\* inserted: the matches each run has inserted a row for, in order), and the
\* POST /api/predictions/generate route (req: the request being handled,
\* resp: the last response, queued: the match ids answered with 200).
VARIABLES predictions, run, inserted, req, resp, queued

avars == <<predictions, run, inserted, req, resp, queued>>

\* the rates, correlation parameters and goal counts a caller passes
Lambdas == {Num(-1, 1), Num(0, 1), Num(1, 1), Num(6, 5), Num(3, 2), Num(2, 1)}
Rhos == {DefaultRho, Num(0, 1), Num(1, 1), Num(2, 1)}
Goals == 0..MaxK
Counts == -2..MaxK
\* the counts a caller passes to logFactorial
FactorialCounts == -1..MaxFactorial

\* the strength ratings, league averages and venue advantages a caller passes
Strengths == {Num(-1, 1), Num(0, 1), Num(1, 2), Num(1, 1), Num(3, 1)}
LeagueAvgs == {Undefined, Num(1, 1), Num(5, 4)}
HomeAdvantages == {Undefined, Num(1, 1), Num(23, 20)}

\* the probabilities, decimal odds and margins a caller passes
Probabilities == {Num(-1, 2), Num(0, 1), Num(1, 2), Num(3, 4), Num(3, 2)}
OddsSet == {Num(0, 1), Num(1, 2), Num(1, 1), Num(2, 1), Num(11, 5), Num(4, 1)}
Margins == {Undefined, Num(0, 1), Num(1, 20), Num(1, 2)}

\* the decimal prices a caller passes, the third of them optional
Prices == {Num(-2, 1), Num(0, 1), Num(1, 2), Num(1, 1), Num(19, 10), Num(2, 1),
           Num(21, 10), Num(4, 1)}
ThirdPrices == {Undefined, Num(2, 1), Num(21, 10), Num(4, 1)}

None == <<>>

\* the callers whose calls overlap, and the rates they pass
Callers == 1..NumCallers
CallerRates == {[lambdaHome |-> Num(3, 2), lambdaAway |-> Num(1, 1)],
                [lambdaHome |-> Num(1, 1), lambdaAway |-> Num(2, 1)]}

\* the runs of the generatePredictions script
Runs == 1..NumRuns

\* a run that has not been started
NotStarted ==
    [pc |-> "idle", allMatches |-> <<>>, predictedMatchIds |-> {},
     matchesToPredict |-> <<>>,
     homeTeam |-> <<>>, awayTeam |-> <<>>, row |-> <<>>]

\* no caller has called the engine
EngineIdle ==
    /\ pc = "idle"
    /\ fn = "none"
    /\ args = None
    /\ matrix = None
    /\ prediction = None
    /\ ret = None
    /\ kargs = {}
    /\ cpc = [c \in Callers |-> "idle"]
    /\ cargs = [c \in Callers |-> None]
    /\ cmatrix = [c \in Callers |-> None]
    /\ cresult = [c \in Callers |-> None]
    /\ seen = {}

\* no run of the script and no request
ApplicationIdle ==
    /\ run = [r \in Runs |-> NotStarted]
    /\ inserted = [r \in Runs |-> <<>>]
    /\ req = <<>>
    /\ resp = <<>>
    /\ queued = {}

Init ==
    /\ EngineIdle
    /\ ApplicationIdle
    /\ predictions = <<>>

CallPoissonProbability(lambda, k) ==
    /\ pc = "idle"
    /\ pc' = "done"
    /\ fn' = "poissonProbability"
    /\ args' = [lambda |-> lambda, k |-> k]
    /\ ret' = poissonProbability(lambda, k)
    /\ UNCHANGED <<matrix, prediction>>
    /\ kargs' = {k}
    /\ UNCHANGED cvars
    /\ UNCHANGED avars

CallCalculateExpectedGoals(attackStrength, defenseStrengthOpp, leagueAvg, homeAdvantage) ==
    /\ pc = "idle"
    /\ pc' = "done"
    /\ fn' = "calculateExpectedGoals"
    /\ args' = [attackStrength |-> attackStrength,
                defenseStrengthOpp |-> defenseStrengthOpp,
                leagueAvg |-> leagueAvg, homeAdvantage |-> homeAdvantage]
    /\ ret' = calculateExpectedGoals(attackStrength, defenseStrengthOpp,
                                     leagueAvg, homeAdvantage)
    /\ UNCHANGED <<matrix, prediction>>
    /\ kargs' = {}
    /\ UNCHANGED cvars
    /\ UNCHANGED avars

CallFindValueBet(trueProbability, odds, margin) ==
    /\ pc = "idle"
    /\ pc' = "done"
    /\ fn' = "findValueBet"
    /\ args' = [trueProbability |-> trueProbability, odds |-> odds, margin |-> margin]
    /\ ret' = findValueBet(trueProbability, odds, margin)
    /\ UNCHANGED <<matrix, prediction>>
    /\ kargs' = {}
    /\ UNCHANGED cvars
    /\ UNCHANGED avars

CallDetectArbitrage(odds1, odds2, odds3) ==
    /\ pc = "idle"
    /\ pc' = "done"
    /\ fn' = "detectArbitrage"
    /\ args' = [odds1 |-> odds1, odds2 |-> odds2, odds3 |-> odds3]
    /\ ret' = detectArbitrage(odds1, odds2, odds3)
    /\ UNCHANGED <<matrix, prediction>>
    /\ kargs' = {}
    /\ UNCHANGED cvars
    /\ UNCHANGED avars

CallLogFactorial(k) ==
    /\ pc = "idle"
    /\ pc' = "done"
    /\ fn' = "logFactorial"
    /\ args' = [k |-> k]
    /\ ret' = logFactorial(k)
    /\ kargs' = {}
    /\ UNCHANGED <<matrix, prediction>>
    /\ UNCHANGED cvars
    /\ UNCHANGED avars

CallDixonColesTau(homeGoals, awayGoals, rho) ==
    /\ pc = "idle"
    /\ pc' = "done"
    /\ fn' = "dixonColesTau"
    /\ args' = [homeGoals |-> homeGoals, awayGoals |-> awayGoals, rho |-> rho]
    /\ ret' = dixonColesTau(homeGoals, awayGoals, rho)
    /\ UNCHANGED <<matrix, prediction>>
    /\ kargs' = {}
    /\ UNCHANGED cvars
    /\ UNCHANGED avars

CallCalculateScoreMatrix(lambdaHome, lambdaAway, maxGoals, rho) ==
    /\ pc = "idle"
    /\ pc' = "done"
    /\ fn' = "calculateScoreMatrix"
    /\ args' = [lambdaHome |-> lambdaHome, lambdaAway |-> lambdaAway,
                maxGoals |-> maxGoals, rho |-> rho]
    /\ matrix' = calculateScoreMatrix(lambdaHome, lambdaAway, maxGoals, rho)
    /\ UNCHANGED <<prediction, ret>>
    /\ kargs' = LoopCounts(maxGoals)
    /\ UNCHANGED cvars
    /\ UNCHANGED avars

\* predictMatch; matrix is the grid the call built (its local const matrix)
CallPredictMatch(lambdaHome, lambdaAway) ==
    /\ pc = "idle"
    /\ pc' = "done"
    /\ fn' = "predictMatch"
    /\ args' = [lambdaHome |-> lambdaHome, lambdaAway |-> lambdaAway]
    /\ matrix' = calculateScoreMatrix(lambdaHome, lambdaAway, DefaultMaxGoals, DefaultRho)
    /\ prediction' = predictMatch(lambdaHome, lambdaAway)
    /\ UNCHANGED ret
    /\ kargs' = LoopCounts(SourceDefaultMaxGoals)
    /\ UNCHANGED cvars
    /\ UNCHANGED avars

\* the caller is done with the result and may call again
Return ==
    /\ pc = "done"
    /\ pc' = "idle"
    /\ fn' = "none"
    /\ args' = None
    /\ matrix' = None
    /\ prediction' = None
    /\ ret' = None
    /\ kargs' = {}
    /\ UNCHANGED cvars
    /\ UNCHANGED avars

Next ==
    \/ \E lambda \in Lambdas, k \in Counts : CallPoissonProbability(lambda, k)
    \/ \E k \in FactorialCounts : CallLogFactorial(k)
    \/ \E h \in Goals, a \in Goals, rho \in Rhos : CallDixonColesTau(h, a, rho)
    \/ \E lh \in Lambdas, la \in Lambdas, mg \in 0..MaxGoals, rho \in Rhos :
          CallCalculateScoreMatrix(lh, la, mg, rho)
    \/ \E lh \in Lambdas, la \in Lambdas : CallPredictMatch(lh, la)
    \/ \E as \in Strengths, ds \in Strengths, l \in LeagueAvgs, h \in HomeAdvantages :
          CallCalculateExpectedGoals(as, ds, l, h)
    \/ \E p \in Probabilities, o \in OddsSet, m \in Margins : CallFindValueBet(p, o, m)
    \/ \E o1 \in Prices, o2 \in Prices, o3 \in ThirdPrices : CallDetectArbitrage(o1, o2, o3)
    \/ Return

Spec == Init /\ [][Next]_<<vars, cvars, avars>>

(***************************************************************************)
(* Overlapping calls of predictMatch.  A call runs pass by pass on its own *)
(* matrix (const matrix, part_003:68 and 117); the passes of different     *)
(* calls interleave in any order.                                          *)
(***************************************************************************)
\* Variant of OwnMatrix for the sensitivity of C15 and C19: one matrix, that
\* of the first caller with a call in flight, shared by all calls
OwnMatrix_shared(c) ==
    cmatrix[CHOOSE d \in Callers :
                cpc[d] # "idle" /\ \A e \in Callers : cpc[e] # "idle" => d <= e]

\* the matrix of caller c's call
OwnMatrix(c) == cmatrix[c]

\* the call starts and fills its matrix with the raw products (first pass)
BeginPredict(c, rates) ==
    /\ cpc[c] = "idle"
    /\ cpc' = [cpc EXCEPT ![c] = "raw"]
    /\ cargs' = [cargs EXCEPT ![c] = rates]
    /\ cmatrix' = [cmatrix EXCEPT ![c] =
                      RawMatrix(rates.lambdaHome, rates.lambdaAway, DefaultMaxGoals)]
    /\ UNCHANGED <<cresult, seen>>
    /\ UNCHANGED vars
    /\ UNCHANGED avars

\* second pass
StepCorrect(c) ==
    /\ cpc[c] = "raw"
    /\ cpc' = [cpc EXCEPT ![c] = "corrected"]
    /\ cmatrix' = [cmatrix EXCEPT ![c] = CorrectMatrix(OwnMatrix(c), DefaultMaxGoals, DefaultRho)]
    /\ UNCHANGED <<cargs, cresult, seen>>
    /\ UNCHANGED vars
    /\ UNCHANGED avars

\* normalization; calculateScoreMatrix returns
StepNormalize(c) ==
    /\ cpc[c] = "corrected"
    /\ cpc' = [cpc EXCEPT ![c] = "normalized"]
    /\ cmatrix' = [cmatrix EXCEPT ![c] = NormalizeMatrix(OwnMatrix(c), DefaultMaxGoals)]
    /\ UNCHANGED <<cargs, cresult, seen>>
    /\ UNCHANGED vars
    /\ UNCHANGED avars

\* the sums over the matrix; predictMatch returns.  The call may be the one
\* that is remembered.
StepAggregate(c) ==
    /\ cpc[c] = "normalized"
    /\ cpc' = [cpc EXCEPT ![c] = "done"]
    /\ cresult' = [cresult EXCEPT ![c] =
                      Aggregate(OwnMatrix(c), cargs[c].lambdaHome, cargs[c].lambdaAway)]
    /\ \/ seen' = seen
       \/ /\ seen = {}
          /\ seen' = {[args |-> cargs[c], result |-> cresult'[c]]}
    /\ UNCHANGED <<cargs, cmatrix>>
    /\ UNCHANGED vars
    /\ UNCHANGED avars

\* the caller is done with the result and may call again
CallerReturn(c) ==
    /\ cpc[c] = "done"
    /\ cpc' = [cpc EXCEPT ![c] = "idle"]
    /\ cargs' = [cargs EXCEPT ![c] = None]
    /\ cmatrix' = [cmatrix EXCEPT ![c] = None]
    /\ cresult' = [cresult EXCEPT ![c] = None]
    /\ UNCHANGED seen
    /\ UNCHANGED vars
    /\ UNCHANGED avars

NextCalls ==
    \/ \E c \in Callers, rates \in CallerRates : BeginPredict(c, rates)
    \/ \E c \in Callers : StepCorrect(c)
    \/ \E c \in Callers : StepNormalize(c)
    \/ \E c \in Callers : StepAggregate(c)
    \/ \E c \in Callers : CallerReturn(c)

SpecCalls == Init /\ [][NextCalls]_<<vars, cvars, avars>>

(***************************************************************************)
(* The application: the generatePredictions script (part_005) and the      *)
(* route POST /api/predictions/generate (part_006), over the tables teams, *)
(* matches and predictions (part_007).                                     *)
(*                                                                         *)
(* A numeric column holds a decimal string or null.  A decimal string is   *)
(* modelled by its digits n and its number of decimals: "1.200" is n =     *)
(* 1200 at scale 3.                                                        *)
(***************************************************************************)
DecimalString(n, scale) == [s |-> "decimal", n |-> n, scale |-> scale]
NaNString == [s |-> "NaN", n |-> 0, scale |-> 0]
InfinityString == [s |-> "Infinity", n |-> 0, scale |-> 0]
\* a numeric column that is not set
Null == [s |-> "null", n |-> 0, scale |-> 0]
\* an integer column that is not set.  The code tests ids with ! only, which
\* holds of null and of 0 alike, and the ids of rows start at 1.
NullId == 0

\* parseFloat of a decimal string
parseFloat(str) ==
    IF str.s = "decimal" THEN Num(str.n, Pow(10, str.scale))
    ELSE IF str.s = "Infinity" THEN PosInf
    ELSE NaN

\* a || b on strings: null is replaced, any decimal string is kept
Or(a, b) == IF a = Null THEN b ELSE a

\* x.toFixed(digits): the decimal with that many decimals nearest to x, the
\* larger one in magnitude at a tie
toFixed(x, digits) ==
    IF x.k = "nan" THEN NaNString
    ELSE IF IsInf(x) THEN InfinityString
    ELSE IF IsRat(x)
    THEN LET scaled == RMul([n |-> Abs(x.a.n), d |-> x.a.d], RInt(Pow(10, digits)))
             n == (2 * scaled.n + scaled.d) \div (2 * scaled.d)
         IN  DecimalString(IF x.a.n < 0 THEN -n ELSE n, digits)
    ELSE [s |-> "unrep", n |-> 0, scale |-> digits]

\* prediction.<field>.toFixed(digits) for prediction = predictMatch(rates),
\* kept as written: the exact value of predictMatch at the rates of the
\* script is beyond TLC's integers
Formatted(field, rates, digits) ==
    [s |-> "toFixed", field |-> field, of |-> rates, digits |-> digits]

\* the teams table
TeamsTable ==
    {[teamId |-> 1, attackStrength |-> DecimalString(1200, 3),
      defenseStrength |-> DecimalString(800, 3)],
     [teamId |-> 2, attackStrength |-> Null,
      defenseStrength |-> DecimalString(500, 3)],
     [teamId |-> 3, attackStrength |-> DecimalString(0, 3),
      defenseStrength |-> Null]}

\* the matches table, in the order a select returns it
MatchesTable ==
    <<[matchId |-> 1, homeTeamId |-> 1, awayTeamId |-> 2],
      [matchId |-> 2, homeTeamId |-> 3, awayTeamId |-> 1],
      [matchId |-> 3, homeTeamId |-> NullId, awayTeamId |-> 2]>>

\* a row of predictions written by seed.ts
SeedRow ==
    [predId |-> 1, matchId |-> 1,
     probHome |-> DecimalString(4250, 4), probDraw |-> DecimalString(2850, 4),
     probAway |-> DecimalString(2900, 4),
     xgHome |-> DecimalString(165, 2), xgAway |-> DecimalString(142, 2)]

\* the predictions table before any run: empty or seeded
SeedChoices == {<<>>, <<SeedRow>>}

\* db.select().from(teams).where(eq(teams.teamId, id)).limit(1)
SelectTeam(id) ==
    LET found == {t \in TeamsTable : t.teamId = id}
    IN  IF found = {} THEN <<>> ELSE <<CHOOSE t \in found : TRUE>>

\* Variant of ExpectedRates for the sensitivity of C22: each side's rate from
\* its own attack and its own defence
ExpectedRates_ownDefense(home, away) ==
    CHOOSE rates \in
        {[lambdaHome |-> calculateExpectedGoals(homeAttack, homeDefense, Num(3, 2), Num(23, 20)),
          lambdaAway |-> calculateExpectedGoals(awayAttack, awayDefense, Num(3, 2), Num(1, 1))] :
             homeAttack \in {parseFloat(Or(home.attackStrength, DecimalString(10, 1)))},
             homeDefense \in {parseFloat(Or(home.defenseStrength, DecimalString(10, 1)))},
             awayAttack \in {parseFloat(Or(away.attackStrength, DecimalString(10, 1)))},
             awayDefense \in {parseFloat(Or(away.defenseStrength, DecimalString(10, 1)))}} :
        TRUE

\* xgHome and xgAway of generatePredictions, the rates it hands to
\* predictMatch.  The four ratings are the script's consts: each is parsed
\* once and its value is used in both products.
ExpectedRates(home, away) ==
    CHOOSE rates \in
        {[lambdaHome |-> calculateExpectedGoals(homeAttack, awayDefense, Num(3, 2), Num(23, 20)),
          lambdaAway |-> calculateExpectedGoals(awayAttack, homeDefense, Num(3, 2), Num(1, 1))] :
             homeAttack \in {parseFloat(Or(home.attackStrength, DecimalString(10, 1)))},
             homeDefense \in {parseFloat(Or(home.defenseStrength, DecimalString(10, 1)))},
             awayAttack \in {parseFloat(Or(away.attackStrength, DecimalString(10, 1)))},
             awayDefense \in {parseFloat(Or(away.defenseStrength, DecimalString(10, 1)))}} :
        TRUE

\* the values handed to db.insert(predictions); prediction.xgHome and
\* prediction.xgAway are the rates themselves (part_003:149-150)
NewRow(match, home, away) ==
    CHOOSE values \in
        {[matchId |-> match.matchId,
          probHome |-> Formatted("probHome", rates, 4),
          probDraw |-> Formatted("probDraw", rates, 4),
          probAway |-> Formatted("probAway", rates, 4),
          xgHome |-> xgHome,
          xgAway |-> xgAway] :
             xgHome \in {toFixed(rates.lambdaHome, 2) : rates \in {ExpectedRates(home, away)}},
             xgAway \in {toFixed(rates.lambdaAway, 2) : rates \in {ExpectedRates(home, away)}},
             rates \in {ExpectedRates(home, away)}} :
        TRUE

\* The loop of generatePredictions from its head: matches with a team id that
\* is not set are passed over (continue, part_005:22) without a query.
RECURSIVE LoopHead(_)
LoopHead(todo) ==
    IF todo = <<>> THEN <<>>
    ELSE IF Head(todo).homeTeamId = NullId \/ Head(todo).awayTeamId = NullId
         THEN LoopHead(Tail(todo))
         ELSE todo

\* where a run is once the loop stands at todo
AtLoopHead(todo) == IF todo = <<>> THEN "done" ELSE "homeTeam"

\* Variant of ToPredict for the sensitivity of C29: no filter
ToPredict_all(allMatches, predictedMatchIds) == allMatches

\* allMatches.filter(m => !predictedMatchIds.has(m.matchId))
ToPredict(allMatches, predictedMatchIds) ==
    SelectSeq(allMatches, LAMBDA m : m.matchId \notin predictedMatchIds)

\* The script is started; const allMatches = await db.select().from(matches)
StartRun(r) ==
    /\ run[r].pc = "idle"
    /\ run' = [run EXCEPT ![r].pc = "predictions", ![r].allMatches = MatchesTable]
    /\ UNCHANGED <<predictions, inserted, req, resp, queued>>
    /\ UNCHANGED <<vars, cvars>>

\* const existingPredictions = await db.select().from(predictions), then the
\* filter, up to the first query of the loop
SelectPredictions(r) ==
    /\ run[r].pc = "predictions"
    /\ LET predictedMatchIds ==
               {predictions[i].matchId : i \in DOMAIN predictions}
           todo == LoopHead(ToPredict(run[r].allMatches, predictedMatchIds))
       IN  run' = [run EXCEPT ![r].predictedMatchIds = predictedMatchIds,
                              ![r].matchesToPredict = todo,
                              ![r].pc = AtLoopHead(todo)]
    /\ UNCHANGED <<predictions, inserted, req, resp, queued>>
    /\ UNCHANGED <<vars, cvars>>

\* const homeTeam = await db.select().from(teams)...
SelectHomeTeam(r) ==
    /\ run[r].pc = "homeTeam"
    /\ run' = [run EXCEPT
                 ![r].homeTeam = SelectTeam(Head(run[r].matchesToPredict).homeTeamId),
                 ![r].pc = "awayTeam"]
    /\ UNCHANGED <<predictions, inserted, req, resp, queued>>
    /\ UNCHANGED <<vars, cvars>>

\* const awayTeam = await db.select().from(teams)...; with both teams found
\* the rates and the prediction are computed and the insert is issued
SelectAwayTeam(r) ==
    /\ run[r].pc = "awayTeam"
    /\ \E awayTeam \in {SelectTeam(Head(run[r].matchesToPredict).awayTeamId)} :
         LET match == Head(run[r].matchesToPredict)
             homeTeam == run[r].homeTeam
             todo == LoopHead(Tail(run[r].matchesToPredict))
         IN  IF Len(homeTeam) = 0 \/ Len(awayTeam) = 0
             THEN run' = [run EXCEPT ![r].awayTeam = awayTeam,
                                     ![r].matchesToPredict = todo,
                                     ![r].pc = AtLoopHead(todo)]
             ELSE \E values \in {NewRow(match, homeTeam[1], awayTeam[1])} :
                    run' = [run EXCEPT ![r].awayTeam = awayTeam,
                                       ![r].row = <<values>>,
                                       ![r].pc = "insert"]
    /\ UNCHANGED <<predictions, inserted, req, resp, queued>>
    /\ UNCHANGED <<vars, cvars>>

\* await db.insert(predictions).values(...): the row is appended with the
\* next pred_id; the loop goes on to its next query
InsertPrediction(r) ==
    /\ run[r].pc = "insert"
    /\ LET values == run[r].row[1]
           todo == LoopHead(Tail(run[r].matchesToPredict))
       IN  /\ predictions' = Append(predictions,
                 [predId |-> Len(predictions) + 1, matchId |-> values.matchId,
                  probHome |-> values.probHome, probDraw |-> values.probDraw,
                  probAway |-> values.probAway,
                  xgHome |-> values.xgHome, xgAway |-> values.xgAway])
           /\ inserted' = [inserted EXCEPT ![r] = Append(@, values.matchId)]
           /\ run' = [run EXCEPT ![r].row = <<>>,
                                 ![r].matchesToPredict = todo,
                                 ![r].pc = AtLoopHead(todo)]
    /\ UNCHANGED <<req, resp, queued>>
    /\ UNCHANGED <<vars, cvars>>

\* the match ids a request to the route carries; NullId stands for a body
\* without matchId
RequestMatchIds == {NullId, 1, 2}

\* a request POST /api/predictions/generate arrives
ReceiveGenerate(matchId) ==
    /\ req = <<>>
    /\ req' = <<[matchId |-> matchId]>>
    /\ UNCHANGED <<predictions, run, inserted, resp, queued>>
    /\ UNCHANGED <<vars, cvars>>

\* the handler of the route
HandleGenerate ==
    /\ req # <<>>
    /\ LET matchId == req[1].matchId
       IN  IF matchId = NullId
           THEN /\ resp' = <<[status |-> 400, body |-> "matchId is required"]>>
                /\ UNCHANGED queued
           ELSE /\ resp' = <<[status |-> 200, body |-> "Prediction generation queued"]>>
                /\ queued' = queued \cup {matchId}
    /\ req' = <<>>
    /\ UNCHANGED <<predictions, run, inserted>>
    /\ UNCHANGED <<vars, cvars>>

\* the steps of a started run
RunStep(r) ==
    \/ SelectPredictions(r)
    \/ SelectHomeTeam(r)
    \/ SelectAwayTeam(r)
    \/ InsertPrediction(r)

InitApp ==
    /\ EngineIdle
    /\ ApplicationIdle
    /\ predictions \in SeedChoices

NextApp ==
    \/ \E r \in Runs : StartRun(r)
    \/ \E r \in Runs : SelectPredictions(r)
    \/ \E r \in Runs : SelectHomeTeam(r)
    \/ \E r \in Runs : SelectAwayTeam(r)
    \/ \E r \in Runs : InsertPrediction(r)
    \/ \E matchId \in RequestMatchIds : ReceiveGenerate(matchId)
    \/ HandleGenerate

SpecApp == InitApp /\ [][NextApp]_<<vars, cvars, avars>>

\* A request that has arrived is handled, and a run that was started goes on;
\* nothing starts a run but whoever runs the script.
SpecAppFair ==
    /\ SpecApp
    /\ WF_avars(HandleGenerate)
    /\ \A r \in Runs : WF_avars(RunStep(r))

\* every value a call returned is one of the forms the model represents
Representable ==
    /\ fn \in {"poissonProbability", "logFactorial", "dixonColesTau",
                "calculateExpectedGoals"} =>
          ret.k # "unrep"
    /\ fn = "findValueBet" => ret.edge.k # "unrep" /\ ret.fairOdds.k # "unrep"
    /\ fn = "detectArbitrage" => ret.profitMargin.k # "unrep"
    /\ fn \in {"calculateScoreMatrix", "predictMatch"} =>
          \A h \in DOMAIN matrix : \A a \in DOMAIN matrix[h] : matrix[h][a].k # "unrep"

(***************************************************************************)
(* What the claims speak of.                                               *)
(***************************************************************************)
\* the cells (h, a) of a grid with rows and columns 0..n
Cells(n) == (0..n) \X (0..n)

\* the sum of the cells of grid m that are in S, row by row
RECURSIVE SumRowIn(_, _, _, _, _)
SumRowIn(m, S, h, a, n) ==
    IF a > n THEN Zero
    ELSE LET rest == SumRowIn(m, S, h, a + 1, n)
         IN  IF <<h, a>> \in S THEN Add(m[h][a], rest) ELSE rest

RECURSIVE SumRowsIn(_, _, _, _)
SumRowsIn(m, S, h, n) ==
    IF h > n THEN Zero
    ELSE Add(SumRowIn(m, S, h, 0, n), SumRowsIn(m, S, h + 1, n))

SumCells(m, S) == SumRowsIn(m, S, 0, Cardinality(DOMAIN m) - 1)

\* poisson(lh, h) * poisson(la, a), the independent product of cell (h, a)
Product(lh, la, h, a) == Mul(poissonProbability(lh, h), poissonProbability(la, a))

\* the grid of the independent products
ProductGrid(lh, la, n) ==
    [h \in 0..n |-> [a \in 0..n |-> Product(lh, la, h, a)]]

\* the grid of the products after the correlation adjustment
AdjustedGrid(lh, la, n, rho) ==
    [h \in 0..n |-> [a \in 0..n |->
        Mul(Product(lh, la, h, a), dixonColesTau(h, a, rho))]]

IsPositive(x) == x.k = "fin" /\ x.a.n > 0
NonNegative(x) == x.k = "fin" /\ x.a.n >= 0

CalledMatrix == pc = "done" /\ fn = "calculateScoreMatrix"
CalledPredict == pc = "done" /\ fn = "predictMatch"
CalledTau == pc = "done" /\ fn = "dixonColesTau"

\* C1: for non-negative rates, maxGoals >= 0 and any rho, the cells of the grid
\* calculateScoreMatrix returns sum to 1.
C1_MatrixSumsToOne ==
    (CalledMatrix /\ NonNegative(args.lambdaHome) /\ NonNegative(args.lambdaAway)) =>
        SumCells(matrix, Cells(args.maxGoals)) = One

\* C2: probHome + probDraw + probAway of predictMatch's result is 1, for any
\* pair of rates.
C2_OutcomesSumToOne ==
    (CalledPredict /\ NonNegative(args.lambdaHome) /\ NonNegative(args.lambdaAway)) =>
        Add(Add(prediction.probHome, prediction.probDraw), prediction.probAway) = One

\* C3: swapping the two rates transposes the grid: cell (h, w) of
\* calculateScoreMatrix(a, b, maxGoals, rho) is cell (w, h) of
\* calculateScoreMatrix(b, a, maxGoals, rho).
C3_SwapTransposes ==
    CalledMatrix =>
        LET swapped == calculateScoreMatrix(args.lambdaAway, args.lambdaHome,
                                            args.maxGoals, args.rho)
        IN  \A c \in Cells(args.maxGoals) : matrix[c[1]][c[2]] = swapped[c[2]][c[1]]

\* a grid of two different positive rates whose cells (0,1) and (1,0) differ
C3_Witness ==
    /\ CalledMatrix
    /\ args.lambdaHome # args.lambdaAway
    /\ args.maxGoals >= 1
    /\ args.rho = DefaultRho
    /\ IsPositive(matrix[0][1])
    /\ IsPositive(matrix[1][0])
    /\ matrix[0][1] # matrix[1][0]

\* C4 as claimed: with rho = 0 every returned cell (h, a) equals
\* poisson(lambdaHome, h) * poisson(lambdaAway, a).
C4_RhoZeroIsProduct ==
    (CalledMatrix /\ args.rho = Zero) =>
        \A c \in Cells(args.maxGoals) :
            matrix[c[1]][c[2]] = Product(args.lambdaHome, args.lambdaAway, c[1], c[2])

\* C4, amended: with rho = 0 every returned cell (h, a) equals
\* poisson(lambdaHome, h) * poisson(lambdaAway, a) divided by the sum of these
\* products over the grid: the adjustment is a no-op, the normalization is not.
C4_RhoZeroIsNormalizedProduct ==
    (CalledMatrix /\ args.rho = Zero) =>
        LET grid == ProductGrid(args.lambdaHome, args.lambdaAway, args.maxGoals)
            total == SumCells(grid, Cells(args.maxGoals))
        IN  \A c \in Cells(args.maxGoals) :
                matrix[c[1]][c[2]] = Div(grid[c[1]][c[2]], total)

\* a grid built with rho = 0 from positive rates whose cell (0,0) is not the
\* independent product
C4_Witness ==
    /\ CalledMatrix
    /\ args.rho = Zero
    /\ args.maxGoals >= 1
    /\ IsPositive(matrix[0][0])
    /\ IsPositive(matrix[1][1])
    /\ matrix[0][0] # Product(args.lambdaHome, args.lambdaAway, 0, 0)

\* C5: dixonColesTau(h, a, rho) is 1 - rho at (0,0) and (1,1), 1 + rho at (0,1)
\* and (1,0), and 1 at every other pair of goal counts.
C5_TauValues ==
    CalledTau =>
        LET h == args.homeGoals
            a == args.awayGoals
            rho == args.rho.a
        IN  ret = IF <<h, a>> \in {<<0, 0>>, <<1, 1>>} THEN Fin(RSub(ROne, rho), RZero)
                  ELSE IF <<h, a>> \in {<<0, 1>>, <<1, 0>>}
                       THEN Fin(RAdd(ROne, rho), RZero)
                  ELSE One

\* a call at (1,0) with a rho that is not 0, returning 1 + rho
C5_Witness ==
    /\ CalledTau
    /\ args.homeGoals = 1
    /\ args.awayGoals = 0
    /\ args.rho = DefaultRho
    /\ ret = Num(87, 100)

\* C6: the grid has maxGoals+1 rows of maxGoals+1 cells (the default maxGoals
\* when the call omits it), and cell (h, a) is
\* poisson(lambdaHome, h) * poisson(lambdaAway, a) * tau(h, a, rho) divided by
\* the sum of these adjusted products over the grid.
C6_NormalizedAdjustedGrid ==
    /\ CalledMatrix =>
          LET n == args.maxGoals
              grid == AdjustedGrid(args.lambdaHome, args.lambdaAway, n, args.rho)
              total == SumCells(grid, Cells(n))
          IN  /\ DOMAIN matrix = 0..n
              /\ Cardinality(DOMAIN matrix) = n + 1
              /\ \A h \in 0..n :
                    /\ DOMAIN matrix[h] = 0..n
                    /\ Cardinality(DOMAIN matrix[h]) = n + 1
              /\ \A c \in Cells(n) : matrix[c[1]][c[2]] = Div(grid[c[1]][c[2]], total)
    /\ CalledPredict =>
          /\ DOMAIN matrix = 0..DefaultMaxGoals
          /\ \A h \in 0..DefaultMaxGoals : DOMAIN matrix[h] = 0..DefaultMaxGoals

\* a grid of positive rates built with the default rho, where the adjustment
\* moved the total away from 1 and the cells are positive
C6_Witness ==
    /\ CalledMatrix
    /\ args.maxGoals >= 2
    /\ args.rho = DefaultRho
    /\ IsPositive(matrix[1][1])
    /\ IsPositive(matrix[2][2])
    /\ matrix[1][1] #
          Mul(Product(args.lambdaHome, args.lambdaAway, 1, 1),
              dixonColesTau(1, 1, args.rho))

\* C7: probHome is the sum of the cells with home > away, probDraw of the cells
\* with home = away, probAway of the cells with home < away.
C7_OutcomeBuckets ==
    CalledPredict =>
        LET all == Cells(Cardinality(DOMAIN matrix) - 1)
        IN  /\ prediction.probHome = SumCells(matrix, {c \in all : c[1] > c[2]})
            /\ prediction.probDraw = SumCells(matrix, {c \in all : c[1] = c[2]})
            /\ prediction.probAway = SumCells(matrix, {c \in all : c[1] < c[2]})

\* a prediction of two different positive rates with three different outcomes
C7_Witness ==
    /\ CalledPredict
    /\ IsPositive(prediction.probHome)
    /\ IsPositive(prediction.probDraw)
    /\ IsPositive(prediction.probAway)
    /\ prediction.probHome # prediction.probAway
    /\ prediction.probHome # prediction.probDraw

\* C8: probOver2_5 is the sum of exactly the cells with home + away >= 3.
C8_OverTwoAndAHalf ==
    CalledPredict =>
        LET all == Cells(Cardinality(DOMAIN matrix) - 1)
        IN  prediction.probOver2_5 = SumCells(matrix, {c \in all : c[1] + c[2] >= 3})

\* a prediction where both the totals below 3 and the totals from 3 on carry mass
C8_Witness ==
    /\ CalledPredict
    /\ IsPositive(prediction.probOver2_5)
    /\ IsPositive(matrix[1][1])
    /\ IsPositive(matrix[1][2])
    /\ IsPositive(Sub(One, prediction.probOver2_5))

\* C9: probBTTS is the sum of exactly the cells with home > 0 and away > 0.
C9_BothTeamsToScore ==
    CalledPredict =>
        LET all == Cells(Cardinality(DOMAIN matrix) - 1)
        IN  prediction.probBTTS =
                SumCells(matrix, {c \in all : c[1] > 0 /\ c[2] > 0})

\* a prediction where row 0, column 0 and the other cells all carry mass
C9_Witness ==
    /\ CalledPredict
    /\ IsPositive(prediction.probBTTS)
    /\ IsPositive(matrix[0][1])
    /\ IsPositive(matrix[1][0])
    /\ IsPositive(Sub(One, prediction.probBTTS))

\* C10: prob0_0 is cell (0,0) of the normalized matrix, and xgHome and xgAway
\* are the two rates as passed.
C10_ZeroZeroAndRates ==
    CalledPredict =>
        LET grid == AdjustedGrid(args.lambdaHome, args.lambdaAway,
                                 DefaultMaxGoals, DefaultRho)
            total == SumCells(grid, Cells(DefaultMaxGoals))
        IN  /\ prediction.prob0_0 = matrix[0][0]
            /\ prediction.prob0_0 = Div(grid[0][0], total)
            /\ prediction.xgHome = args.lambdaHome
            /\ prediction.xgAway = args.lambdaAway

\* a prediction of two different positive rates with a positive prob0_0
C10_Witness ==
    /\ CalledPredict
    /\ args.lambdaHome # args.lambdaAway
    /\ IsPositive(args.lambdaHome)
    /\ IsPositive(args.lambdaAway)
    /\ IsPositive(prediction.prob0_0)

CalledExpectedGoals == pc = "done" /\ fn = "calculateExpectedGoals"

\* C11: calculateExpectedGoals returns attackStrength * defenseStrengthOpp *
\* leagueAvg * homeAdvantage, with leagueAvg 1.5 and homeAdvantage 1.0 when
\* they are left out, and clamps no factor and no result.
C11_ExpectedGoalsProduct ==
    CalledExpectedGoals =>
        LET l == IF args.leagueAvg = Undefined THEN Rat(3, 2) ELSE args.leagueAvg.a
            h == IF args.homeAdvantage = Undefined THEN ROne ELSE args.homeAdvantage.a
        IN  ret = Fin(RMul(RMul(RMul(args.attackStrength.a, args.defenseStrengthOpp.a), l), h),
                      RZero)

\* a call without leagueAvg and homeAdvantage whose result is negative
C11_Witness ==
    /\ CalledExpectedGoals
    /\ args.leagueAvg = Undefined
    /\ args.homeAdvantage = Undefined
    /\ args.attackStrength = Num(-1, 1)
    /\ args.defenseStrengthOpp = Num(3, 1)
    /\ ret = Num(-9, 2)

CalledFindValueBet == pc = "done" /\ fn = "findValueBet"

\* C12: for a non-zero price, findValueBet returns
\* edge = 100 * (p - 1/odds) / (1/odds), fairOdds = 1/p (p not 0), and hasValue
\* true exactly when (p - 1/odds) / (1/odds) is strictly above the margin
\* (0.05 when left out); an edge equal to the margin gives hasValue false.
C12_ValueBet ==
    (CalledFindValueBet /\ ~IsZero(args.odds)) =>
        LET p == args.trueProbability.a
            implied == RInv(args.odds.a)
            m == IF args.margin = Undefined THEN Rat(1, 20) ELSE args.margin.a
            edge == RDiv(RSub(p, implied), implied)
        IN  /\ ret.edge = Fin(RMul(RInt(100), edge), RZero)
            /\ p.n # 0 => ret.fairOdds = Fin(RInv(p), RZero)
            /\ ret.hasValue = RLess(m, edge)
            /\ edge = m => ret.hasValue = FALSE

\* a call whose edge is exactly its margin: p = 0.75 at odds 2 with margin 0.5
C12_Witness ==
    /\ CalledFindValueBet
    /\ args.trueProbability = Num(3, 4)
    /\ args.odds = Num(2, 1)
    /\ args.margin = Num(1, 2)
    /\ ret.edge = Num(50, 1)
    /\ ret.hasValue = FALSE

\* C14: findValueBet(0.50, 2.20, 0.05) returns hasValue = true, an edge of 10
\* (per cent) and fairOdds = 2.
C14_ValueBetExample ==
    (/\ CalledFindValueBet
     /\ args.trueProbability = Num(1, 2)
     /\ args.odds = Num(11, 5)
     /\ args.margin = Num(1, 20)) =>
        /\ ret.hasValue = TRUE
        /\ ret.edge = Num(10, 1)
        /\ ret.fairOdds = Num(2, 1)

\* the call findValueBet(0.50, 2.20, 0.05) has returned
C14_Witness ==
    /\ CalledFindValueBet
    /\ args.trueProbability = Num(1, 2)
    /\ args.odds = Num(11, 5)
    /\ args.margin = Num(1, 20)
    /\ ret.hasValue

\* C17: findValueBet with a true probability of exactly 0, a price above 1 and
\* the default margin returns an infinite fairOdds and hasValue = false.
C17_ZeroProbability ==
    (/\ CalledFindValueBet
     /\ args.trueProbability = Zero
     /\ Less(One, args.odds)
     /\ args.margin = Undefined) =>
        /\ ret.fairOdds = PosInf
        /\ ret.hasValue = FALSE
        /\ ret.edge = Num(-100, 1)

\* the call findValueBet(0, 2.2) has returned
C17_Witness ==
    /\ CalledFindValueBet
    /\ args.trueProbability = Zero
    /\ args.odds = Num(11, 5)
    /\ args.margin = Undefined
    /\ ret.fairOdds = PosInf

CalledDetectArbitrage == pc = "done" /\ fn = "detectArbitrage"

\* the prices a call of detectArbitrage was given
SuppliedPrices ==
    {args.odds1, args.odds2} \cup (IF args.odds3 = Undefined THEN {} ELSE {args.odds3})

\* C13: given two or three (positive) decimal prices, isArbitrage is true
\* exactly when the sum of 1/price over them is strictly below 1, and
\* profitMargin is (1/sum - 1) * 100; (1.90, 1.90) is no arbitrage.
C13_Arbitrage ==
    (CalledDetectArbitrage /\ \A o \in SuppliedPrices : IsPositive(o)) =>
        LET third == IF args.odds3 = Undefined THEN RZero ELSE RInv(args.odds3.a)
            sum == RAdd(RAdd(RInv(args.odds1.a), RInv(args.odds2.a)), third)
        IN  /\ ret.isArbitrage = RLess(sum, ROne)
            /\ sum = ROne => ret.isArbitrage = FALSE
            /\ ret.profitMargin = Fin(RMul(RSub(RInv(sum), ROne), RInt(100)), RZero)
            /\ (args.odds1 = Num(19, 10) /\ args.odds2 = Num(19, 10)
                   /\ args.odds3 = Undefined) => ret.isArbitrage = FALSE

\* three prices whose implied probabilities sum to exactly 1
C13_Witness ==
    /\ CalledDetectArbitrage
    /\ args.odds1 = Num(2, 1)
    /\ args.odds2 = Num(4, 1)
    /\ args.odds3 = Num(4, 1)
    /\ ret.isArbitrage = FALSE
    /\ ret.profitMargin = Zero

CalledPoisson == pc = "done" /\ fn = "poissonProbability"

\* C16: a rate of zero puts all the mass at zero goals:
\* poissonProbability(0, 0) = 1 and poissonProbability(0, k) = 0 for k >= 1, and
\* a grid built with lambdaHome = 0 (lambdaAway = 0) has all its mass in row 0
\* (column 0) and sums to 1.
C16_ZeroRate ==
    /\ (CalledPoisson /\ args.lambda = Zero /\ args.k >= 0) =>
          ret = IF args.k = 0 THEN One ELSE Zero
    /\ (CalledMatrix /\ args.lambdaHome = Zero /\ IsPositive(args.lambdaAway)) =>
          /\ \A c \in Cells(args.maxGoals) : c[1] >= 1 => matrix[c[1]][c[2]] = Zero
          /\ SumCells(matrix, Cells(args.maxGoals)) = One
    /\ (CalledMatrix /\ args.lambdaAway = Zero /\ IsPositive(args.lambdaHome)) =>
          /\ \A c \in Cells(args.maxGoals) : c[2] >= 1 => matrix[c[1]][c[2]] = Zero
          /\ SumCells(matrix, Cells(args.maxGoals)) = One

\* C20: poissonProbability(lambda, k) returns 0 for every k < 0, whatever
\* lambda is.
C20_NegativeCount ==
    (CalledPoisson /\ args.k < 0) => ret = Zero

\* a call with k < 0 and a rate for which the formula itself gives no number
C20_Witness ==
    /\ CalledPoisson
    /\ args.k = -2
    /\ args.lambda = Num(-1, 1)
    /\ ret = Zero

\* a value of the number type: finite, NaN or an infinity
IsNumber(x) == x.k \in {"fin", "nan", "inf", "-inf"}

\* C18: no engine function rejects its input: with a negative rate or rating,
\* a probability outside [0,1] or odds <= 1, each call returns numbers
\* (possibly NaN or infinite), never an InvalidInput failure.
C18_NoValidation ==
    /\ (CalledExpectedGoals
            /\ (Less(args.attackStrength, Zero) \/ Less(args.defenseStrengthOpp, Zero))) =>
          IsNumber(ret)
    /\ (CalledMatrix /\ (Less(args.lambdaHome, Zero) \/ Less(args.lambdaAway, Zero))) =>
          /\ DOMAIN matrix = 0..args.maxGoals
          /\ \A c \in Cells(args.maxGoals) : IsNumber(matrix[c[1]][c[2]])
    /\ (CalledPredict /\ (Less(args.lambdaHome, Zero) \/ Less(args.lambdaAway, Zero))) =>
          /\ DOMAIN prediction =
                {"probHome", "probDraw", "probAway", "xgHome", "xgAway",
                 "prob0_0", "probOver2_5", "probBTTS"}
          /\ \A f \in {"probHome", "probDraw", "probAway", "xgHome", "xgAway",
                       "prob0_0", "probOver2_5", "probBTTS"} : IsNumber(prediction[f])
    /\ (CalledFindValueBet
            /\ (\/ Less(args.trueProbability, Zero)
                \/ Less(One, args.trueProbability)
                \/ ~Less(One, args.odds))) =>
          /\ DOMAIN ret = {"hasValue", "edge", "fairOdds"}
          /\ ret.hasValue \in BOOLEAN
          /\ IsNumber(ret.edge)
          /\ IsNumber(ret.fairOdds)
    /\ (CalledDetectArbitrage /\ \E o \in SuppliedPrices : ~Less(One, o)) =>
          /\ DOMAIN ret = {"isArbitrage", "profitMargin"}
          /\ ret.isArbitrage \in BOOLEAN
          /\ IsNumber(ret.profitMargin)

\* a call of findValueBet with a negative probability and odds of 0, which
\* returned a NaN edge
C18_Witness ==
    /\ CalledFindValueBet
    /\ args.trueProbability = Num(-1, 2)
    /\ args.odds = Zero
    /\ ret.edge = NaN
    /\ ret.fairOdds = Num(-2, 1)
    /\ ret.hasValue = FALSE

\* C15: two calls of predictMatch with the same rates return the same eight
\* values, whatever other calls ran in between or alongside.
C15_SameArgsSameResult ==
    \A c \in Callers :
        cpc[c] = "done" =>
            /\ \A s \in seen : s.args = cargs[c] => cresult[c] = s.result
            /\ \A d \in Callers :
                  (cpc[d] = "done" /\ cargs[d] = cargs[c]) => cresult[d] = cresult[c]

\* a call returns with the rates of a remembered call, while another call with
\* other rates is between two passes
C15_Witness ==
    \E c \in Callers, d \in Callers :
        /\ c # d
        /\ cpc[c] = "done"
        /\ \E s \in seen : s.args = cargs[c] /\ s.result = cresult[c]
        /\ cpc[d] \in {"raw", "corrected", "normalized"}
        /\ cargs[d] # cargs[c]
        /\ IsPositive(cresult[c].probHome)

\* C19: in any interleaving of overlapping calls each call returns what it
\* returns when run alone.
C19_AsIfAlone ==
    \A c \in Callers :
        /\ cpc[c] = "normalized" =>
              cmatrix[c] = calculateScoreMatrix(cargs[c].lambdaHome, cargs[c].lambdaAway,
                                                DefaultMaxGoals, DefaultRho)
        /\ cpc[c] = "done" =>
              cresult[c] = predictMatch(cargs[c].lambdaHome, cargs[c].lambdaAway)

\* two calls with different rates have both returned
C19_Witness ==
    \E c \in Callers, d \in Callers :
        /\ cpc[c] = "done"
        /\ cpc[d] = "done"
        /\ cargs[c] # cargs[d]
        /\ cresult[c] # cresult[d]

\* a probability: a finite value that is at least 0 and at most 1
InUnit(x) == IsRat(x) /\ ~RLess(x.a, RZero) /\ ~RLess(ROne, x.a)

\* C21: for non-negative rates, maxGoals >= 0 and any rho, every cell of the
\* grid calculateScoreMatrix returns is at least 0 and at most 1.
C21_CellsAreProbabilities ==
    (CalledMatrix /\ NonNegative(args.lambdaHome) /\ NonNegative(args.lambdaAway)) =>
        \A c \in Cells(args.maxGoals) : InUnit(matrix[c[1]][c[2]])

CalledLogFactorial == pc = "done" /\ fn = "logFactorial"

\* the exponent of the prime p in k!
RECURSIVE Legendre(_, _)
Legendre(k, p) == IF k < p THEN 0 ELSE (k \div p) + Legendre(k \div p, p)

\* ln(k!)
LnFactorial(k) == LnInt([i \in 1..Len(Primes) |-> Legendre(k, Primes[i])], RZero)

\* C25: logFactorial(k) is 0 for k <= 1, ln(k!) for 2 <= k < 20 and the value
\* of Stirling's formula at k for k >= 20.
C25_LogFactorial ==
    CalledLogFactorial =>
        ret = IF args.k <= 1 THEN Zero
              ELSE IF args.k < 20 THEN LnFactorial(args.k)
              ELSE Stirling(args.k)

\* logFactorial(19) has returned ln(19!), which is beyond TLC's integers
C25_Witness ==
    /\ CalledLogFactorial
    /\ args.k = 19
    /\ ret.k = "lnbig"
    /\ ret.e = <<16, 8, 3, 2, 1, 1, 1, 1>>

\* C26: swapping the rates mirrors the prediction: probHome and probAway
\* change places and probDraw, prob0_0, probOver2_5 and probBTTS stay; with
\* equal rates probHome = probAway.
C26_SwapMirrors ==
    CalledPredict =>
        LET swapped == predictMatch(args.lambdaAway, args.lambdaHome)
        IN  /\ prediction.probHome = swapped.probAway
            /\ prediction.probAway = swapped.probHome
            /\ prediction.probDraw = swapped.probDraw
            /\ prediction.prob0_0 = swapped.prob0_0
            /\ prediction.probOver2_5 = swapped.probOver2_5
            /\ prediction.probBTTS = swapped.probBTTS
            /\ args.lambdaHome = args.lambdaAway =>
                  prediction.probHome = prediction.probAway

\* a prediction for two different positive rates, in which the stronger side
\* is the likelier winner
C26_Witness ==
    /\ CalledPredict
    /\ args.lambdaHome = Num(2, 1)
    /\ args.lambdaAway = Num(1, 1)
    /\ Less(prediction.probAway, prediction.probHome)

\* C27: for positive odds hasValue is true exactly when p * odds > 1 + margin;
\* then, for margin >= 0 and p > 0, the odds are strictly above fairOdds and
\* the edge is strictly positive.
C27_ValueMeansOddsAboveFair ==
    (CalledFindValueBet /\ Less(Zero, args.odds)) =>
        LET m == Default(args.margin, DefaultMargin)
        IN  /\ ret.hasValue <=>
                  Less(Add(One, m), Mul(args.trueProbability, args.odds))
            /\ (ret.hasValue /\ ~Less(m, Zero) /\ Less(Zero, args.trueProbability)) =>
                  /\ Less(ret.fairOdds, args.odds)
                  /\ Less(Zero, ret.edge)

\* a value bet at a probability of 3/4 and odds of 2 with the default margin
C27_Witness ==
    /\ CalledFindValueBet
    /\ args.trueProbability = Num(3, 4)
    /\ args.odds = Num(2, 1)
    /\ args.margin = Undefined
    /\ ret.hasValue
    /\ ret.fairOdds = Num(4, 3)
    /\ ret.edge = Num(50, 1)

\* C28: without a third price the result is that of the two legs; for positive
\* prices an arbitrage on three legs is one on the first two, and isArbitrage
\* is true exactly when profitMargin > 0.
C28_ThirdLeg ==
    CalledDetectArbitrage =>
        LET twoLegs == Add(Div(One, args.odds1), Div(One, args.odds2))
        IN  /\ args.odds3 = Undefined =>
                  /\ ret.isArbitrage = Less(twoLegs, One)
                  /\ ret.profitMargin = Mul(Sub(Div(One, twoLegs), One), Num(100, 1))
            /\ (\A o \in SuppliedPrices : Less(Zero, o)) =>
                  /\ ret.isArbitrage =>
                        detectArbitrage(args.odds1, args.odds2, Undefined).isArbitrage
                  /\ ret.isArbitrage <=> Less(Zero, ret.profitMargin)

\* two legs at 4 are an arbitrage, and a third leg at 4 leaves it one
C28_Witness ==
    /\ CalledDetectArbitrage
    /\ args.odds1 = Num(4, 1)
    /\ args.odds2 = Num(4, 1)
    /\ args.odds3 = Num(4, 1)
    /\ ret.isArbitrage
    /\ ret.profitMargin = Num(100, 3)

\* the rows generatePredictions has built: those it is about to insert and
\* those it has inserted (the rows of seed.ts hold plain decimals)
RunRows ==
    {run[r].row[1] : r \in {q \in Runs : run[q].row # <<>>}} \cup
    {predictions[i] : i \in {j \in DOMAIN predictions : predictions[j].probHome.s = "toFixed"}}

MatchOf(id) == CHOOSE m \in {MatchesTable[i] : i \in DOMAIN MatchesTable} : m.matchId = id
TeamOf(id) == CHOOSE t \in TeamsTable : t.teamId = id

\* a rating column as numerator and denominator, 1/1 when it is not set
RatingOf(str) ==
    IF str.s = "null" THEN [n |-> 1, d |-> 1] ELSE [n |-> str.n, d |-> Pow(10, str.scale)]

\* attack * defence * c, with c = cn/cd
RateFrom(attack, defense, cn, cd) ==
    Num(RatingOf(attack).n * RatingOf(defense).n * cn,
        RatingOf(attack).d * RatingOf(defense).d * cd)

\* C22: for each match it predicts, generatePredictions hands predictMatch
\* lambdaHome = homeAttack * awayDefense * 1.5 * 1.15 (= * 69/40) and
\* lambdaAway = awayAttack * homeDefense * 1.5 * 1.0 (= * 3/2), a rating that
\* is not set counting as 1.0.
C22_RatesFedToPredictMatch ==
    \A row \in RunRows :
        LET home == TeamOf(MatchOf(row.matchId).homeTeamId)
            away == TeamOf(MatchOf(row.matchId).awayTeamId)
            fed == [lambdaHome |-> RateFrom(home.attackStrength, away.defenseStrength, 69, 40),
                    lambdaAway |-> RateFrom(away.attackStrength, home.defenseStrength, 3, 2)]
        IN  /\ row.probHome.of = fed
            /\ row.probDraw.of = fed
            /\ row.probAway.of = fed

\* a run has built the row of match 2, whose home team has no defence rating:
\* lambdaAway is 1.2 * 1.0 * 1.5 = 9/5
C22_Witness ==
    \E row \in RunRows :
        /\ row.matchId = 2
        /\ row.probHome.of.lambdaAway = Num(9, 5)
        /\ row.probHome.of.lambdaHome = Zero

\* the match ids of the rows of predictions
PredictedIds == {predictions[i].matchId : i \in DOMAIN predictions}

\* C23: once the route has answered a request for a match with 200, a
\* prediction for that match is eventually stored.
C23_QueuedIsStored == \A m \in RequestMatchIds : (m \in queued) ~> (m \in PredictedIds)

\* the matches a run is to predict, given what it read: no prediction among
\* the rows it selected, both team ids set, both teams in the teams table
InsertsDue(r) ==
    {m.matchId : m \in
        {x \in {MatchesTable[i] : i \in DOMAIN MatchesTable} :
            /\ x.matchId \notin run[r].predictedMatchIds
            /\ x.homeTeamId # NullId
            /\ x.awayTeamId # NullId
            /\ \E t \in TeamsTable : t.teamId = x.homeTeamId
            /\ \E t \in TeamsTable : t.teamId = x.awayTeamId}}

\* a completed run has inserted one row for each match due and none else
InsertedWhatWasDue ==
    \A r \in Runs :
        run[r].pc = "done" =>
            /\ {inserted[r][i] : i \in DOMAIN inserted[r]} = InsertsDue(r)
            /\ Len(inserted[r]) = Cardinality(InsertsDue(r))

\* a step leaves every row of the predictions table as it was
RowsKept ==
    \A i \in DOMAIN predictions :
        i \in DOMAIN predictions' /\ predictions'[i] = predictions[i]

C30_OneRowPerMatch ==
    \A i, j \in DOMAIN predictions :
        predictions[i].matchId = predictions[j].matchId => i = j

====
